---- MODULE Spec2Model ----
(***************************************************************************)
(* A model of prepare_structure.py: the compositor combine_rgb_mask, the   *)
(* three range copies, the background suppressor                           *)
(* postprocess_segmented_images and the orchestrator                       *)
(* process_object_directory, over a file system of small images.           *)
(*                                                                         *)
(* A file name is a record [stem, sfx, ext]: the text                      *)
(*   f"{stem:06d}" + sfx * "_000000" + "." + ext.                          *)
(* A file is a decodable image [kind "img", h, w, ch, px] whose pixels are *)
(* in the order a PNG stores them (gray, RGB, RGBA), or an undecodable one *)
(* (kind "bad").  An in-memory array has kind "arr"; ch = 0 is a 2-D       *)
(* array (shape (h, w)), ch > 0 a 3-D one (shape (h, w, ch)).              *)
(***************************************************************************)
EXTENDS Integers, Sequences, FiniteSets, TLC

VARIABLES dirs, fs, pc, result, steps, log, arg, runs, snap, dirs0, fs0

vars == <<dirs, fs, pc, result, steps, log, arg, runs, snap, dirs0, fs0>>

(***************************************************************************)
(* Program constants.                                                      *)
(***************************************************************************)
SegmentedEnd == 30
SurfaceEnd == 20
AlphaThreshold == 10

(***************************************************************************)
(* Bounds of the model.                                                    *)
(***************************************************************************)
MaxDim == 2
MaxFaults == 2
MaxFrames == 2
MaxFiles == 2
MaxIdx == 3

(***************************************************************************)
(* Folders of one object directory.                                        *)
(***************************************************************************)
Folders ==
  {"base", "rgb", "mask", "rgb_mask",
   "seg_images", "seg_masks", "surf_images", "surf_masks"}

VggtFolders == {"seg_images", "seg_masks", "surf_images", "surf_masks"}

EmptyFolder == [n \in {} |-> 0]

(***************************************************************************)
(* File names.                                                             *)
(***************************************************************************)
PlainName(i) == [stem |-> i, sfx |-> 0, ext |-> "png"]

MaskName(i) == [stem |-> i, sfx |-> 1, ext |-> "png"]

Lower(ext) == IF ext = "PNG" THEN "png" ELSE ext

IsPng(name) == Lower(name.ext) = "png"

\* os.path.splitext(f)[0]: the name without its extension.
BaseName(name) == [stem |-> name.stem, sfx |-> name.sfx]

\* f"{base_name}_000000.png"
MaskFileOf(base) == [stem |-> base.stem, sfx |-> base.sfx + 1, ext |-> "png"]

\* f"{base_name}.png"
OutputFileOf(base) == [stem |-> base.stem, sfx |-> base.sfx, ext |-> "png"]

\* The order of the names as text: digits, then "." before "_", then the
\* extension in ASCII order ("PNG" < "jpg" < "png").
ExtRank(ext) == IF ext = "PNG" THEN 0 ELSE IF ext = "jpg" THEN 1 ELSE 2

NameLeq(a, b) ==
  \/ a.stem < b.stem
  \/ a.stem = b.stem /\ a.sfx < b.sfx
  \/ a.stem = b.stem /\ a.sfx = b.sfx /\ ExtRank(a.ext) <= ExtRank(b.ext)

RECURSIVE SortNames(_)
SortNames(S) ==
  IF S = {} THEN <<>>
  ELSE LET m == CHOOSE x \in S : \A y \in S : NameLeq(x, y)
       IN <<m>> \o SortNames(S \ {m})

\* [f for f in os.listdir(folder) if f.lower().endswith('.png')], sorted.
PngFiles(folder) == SortNames({n \in DOMAIN folder : IsPng(n)})

(***************************************************************************)
(* Images.                                                                 *)
(***************************************************************************)
Pos(h, w) == (1..h) \X (1..w)

EmptyPx == [p \in {} |-> <<>>]

Bad == [kind |-> "bad", h |-> 0, w |-> 0, ch |-> 0, px |-> EmptyPx]

None == [kind |-> "none", h |-> 0, w |-> 0, ch |-> 0, px |-> EmptyPx]

Reverse3(p) == <<p[3], p[2], p[1]>>

\* cv2.imread(path): a 3-channel BGR array, or None for an undecodable file.
ImreadColor(file) ==
  IF file.kind # "img" THEN None
  ELSE [kind |-> "arr", h |-> file.h, w |-> file.w, ch |-> 3,
        px |-> [p \in Pos(file.h, file.w) |->
                  IF file.ch = 1
                  THEN <<file.px[p][1], file.px[p][1], file.px[p][1]>>
                  ELSE Reverse3(file.px[p])]]

CvtColorNone(img) == img

\* cv2.cvtColor(img, cv2.COLOR_BGR2RGB) of a 3-channel array.
CvtColorBGR2RGB(img) ==
  [img EXCEPT !.px = [p \in DOMAIN img.px |-> Reverse3(img.px[p])]]

\* cv2.imread(path, cv2.IMREAD_GRAYSCALE) of a single-channel file: a 2-D
\* array, or None for an undecodable file.
ImreadGray(file) ==
  IF file.kind # "img" THEN None
  ELSE [kind |-> "arr", h |-> file.h, w |-> file.w, ch |-> 0,
        px |-> [p \in Pos(file.h, file.w) |-> <<file.px[p][1]>>]]

\* cv2.imread(path, cv2.IMREAD_UNCHANGED): BGRA for a 4-channel file, BGR
\* for a 3-channel one, a 2-D array for a gray one, None otherwise.
ImreadUnchanged(file) ==
  IF file.kind # "img" THEN None
  ELSE [kind |-> "arr", h |-> file.h, w |-> file.w,
        ch |-> IF file.ch = 1 THEN 0 ELSE file.ch,
        px |-> [p \in Pos(file.h, file.w) |->
                  IF file.ch = 4
                  THEN Reverse3(file.px[p]) \o <<file.px[p][4]>>
                  ELSE IF file.ch = 3 THEN Reverse3(file.px[p])
                  ELSE file.px[p]]]

ImwriteAsStored(img) ==
  [kind |-> "img", h |-> img.h, w |-> img.w, ch |-> 4, px |-> img.px]

\* cv2.imwrite(path, img) of a BGRA array: the PNG holds RGBA.
ImwriteBGRA(img) ==
  [kind |-> "img", h |-> img.h, w |-> img.w, ch |-> 4,
   px |-> [p \in DOMAIN img.px |-> Reverse3(img.px[p]) \o <<img.px[p][4]>>]]

\* Image.fromarray(rgba, 'RGBA').save(path): the PNG holds the array as is.
SaveRGBA(img) ==
  [kind |-> "img", h |-> img.h, w |-> img.w, ch |-> 4, px |-> img.px]

(***************************************************************************)
(* cv2.resize(src, (dw, dh)): bilinear, pixel centres aligned, the source  *)
(* coordinate of destination x is ((2x+1)*sw - dw) / (2*dw), clamped to    *)
(* the source, the result rounded to the nearest integer.                  *)
(***************************************************************************)
Min(a, b) == IF a < b THEN a ELSE b

\* The source cell and the fraction numerator (over 2*dn) for the 0-based
\* destination coordinate x, with sn source and dn destination cells.
SrcCell(x, sn, dn) ==
  LET num == (2 * x + 1) * sn - dn
      den == 2 * dn
      s0 == num \div den
  IN IF num < 0 THEN [i |-> 0, f |-> 0]
     ELSE IF s0 >= sn - 1 THEN [i |-> sn - 1, f |-> 0]
     ELSE [i |-> s0, f |-> num - s0 * den]

Resize(img, dw, dh) ==
  [kind |-> "arr", h |-> dh, w |-> dw, ch |-> img.ch,
   px |-> [p \in Pos(dh, dw) |->
     LET cy == SrcCell(p[1] - 1, img.h, dh)
         cx == SrcCell(p[2] - 1, img.w, dw)
         deny == 2 * dh
         denx == 2 * dw
         y0 == cy.i + 1
         y1 == Min(cy.i + 1, img.h - 1) + 1
         x0 == cx.i + 1
         x1 == Min(cx.i + 1, img.w - 1) + 1
         sum == (deny - cy.f) * (denx - cx.f) * img.px[<<y0, x0>>][1]
                + (deny - cy.f) * cx.f * img.px[<<y0, x1>>][1]
                + cy.f * (denx - cx.f) * img.px[<<y1, x0>>][1]
                + cy.f * cx.f * img.px[<<y1, x1>>][1]
     IN <<(sum + (deny * denx) \div 2) \div (deny * denx)>>]]

(***************************************************************************)
(* combine_rgb_mask                                                        *)
(***************************************************************************)
Raised == [raised |-> TRUE, file |-> Bad]

\* rgba = np.zeros((h, w, 4)); rgba[:, :, :3] = rgb; rgba[:, :, 3] = mask.
\* The second assignment broadcasts a mask axis of length 1 and raises
\* ValueError for any other shape that differs.
MergeRGBA(rgb, mask) ==
  IF mask.h \notin {1, rgb.h} \/ mask.w \notin {1, rgb.w} THEN Raised
  ELSE [raised |-> FALSE,
        file |-> SaveRGBA(
          [kind |-> "arr", h |-> rgb.h, w |-> rgb.w, ch |-> 4,
           px |-> [p \in Pos(rgb.h, rgb.w) |->
                     rgb.px[p]
                     \o mask.px[<<Min(p[1], mask.h), Min(p[2], mask.w)>>]]])]

\* cv2.resize(mask_image, (rgb_image.shape[1], rgb_image.shape[0]))
ResizeMaskSwapped(mask, rgb) == Resize(mask, rgb.h, rgb.w)

ResizeMask(mask, rgb) == Resize(mask, rgb.w, rgb.h)

\* The body of the try block for one colour file whose mask file exists.
CombineFrame(rgbFile, maskFile) ==
  LET bgr == ImreadColor(rgbFile)
  IN IF bgr.kind = "none" THEN Raised        \* cvtColor raises cv2.error
     ELSE
       LET rgb == CvtColorBGR2RGB(bgr)
           m0 == ImreadGray(maskFile)
       IN IF m0.kind = "none" THEN Raised    \* None has no attribute shape
          ELSE
            LET m == IF <<rgb.h, rgb.w>> # <<m0.h, m0.w>>
                     THEN ResizeMask(m0, rgb)
                     ELSE m0
            IN MergeRGBA(rgb, m)

\* A frame without a mask composited as fully opaque instead of skipped.
CombineOneOpaque(name, rgbF, maskF, st) ==
  LET base == BaseName(name)
      maskName == MaskFileOf(base)
      opaque == [kind |-> "img", h |-> 1, w |-> 1, ch |-> 1,
                 px |-> [p \in Pos(1, 1) |-> <<255>>]]
      r == CombineFrame(rgbF[name],
                        IF maskName \in DOMAIN maskF THEN maskF[maskName]
                        ELSE opaque)
  IN IF r.raised THEN st
     ELSE [k |-> st.k,
           out |-> (OutputFileOf(base) :> r.file) @@ st.out,
           count |-> st.count + 1]

\* One pass of the for loop over rgb_files, on the loop state
\* st = [k, out, count]: k is the position in rgb_files.
CombineOne(name, rgbF, maskF, st) ==
  LET base == BaseName(name)
      maskName == MaskFileOf(base)
  IN IF maskName \notin DOMAIN maskF THEN st            \* warning, continue
     ELSE
       LET r == CombineFrame(rgbF[name], maskF[maskName])
       IN IF r.raised THEN st                           \* except: continue
          ELSE [k |-> st.k,
                out |-> (OutputFileOf(base) :> r.file) @@ st.out,
                count |-> st.count + 1]

RECURSIVE CombineLoopBreak(_, _, _, _)
CombineLoopBreak(files, rgbF, maskF, st) ==
  IF st.k > Len(files) THEN st
  ELSE IF MaskFileOf(BaseName(files[st.k])) \notin DOMAIN maskF THEN st
  ELSE CombineLoopBreak(files, rgbF, maskF,
         [CombineOne(files[st.k], rgbF, maskF, st) EXCEPT !.k = st.k + 1])

\* for rgb_file in rgb_files
RECURSIVE CombineLoop(_, _, _, _)
CombineLoop(files, rgbF, maskF, st) ==
  IF st.k > Len(files) THEN st
  ELSE CombineLoop(files, rgbF, maskF,
         [CombineOne(files[st.k], rgbF, maskF, st) EXCEPT !.k = st.k + 1])

\* os.makedirs(folder, exist_ok=True)
Makedirs(d, folder) ==
  d \cup {folder}
    \cup (IF folder \in {"rgb", "mask", "rgb_mask"} THEN {"base"} ELSE {})

\* combine_rgb_mask(rgb_folder, mask_folder, output_folder) on the file
\* system <<d, f>>: the file system after it, its return value and the
\* count it prints.
CombineRgbMask(d, f, rgbDir, maskDir, outDir) ==
  IF rgbDir \notin d
  THEN [dirs |-> d, fs |-> f, ret |-> FALSE, count |-> 0]
  ELSE IF maskDir \notin d
  THEN [dirs |-> d, fs |-> f, ret |-> FALSE, count |-> 0]
  ELSE
    LET d1 == Makedirs(d, outDir)
        files == PngFiles(f[rgbDir])
    IN IF files = <<>>
       THEN [dirs |-> d1, fs |-> f, ret |-> FALSE, count |-> 0]
       ELSE
         LET st == CombineLoop(files, f[rgbDir], f[maskDir],
                               [k |-> 1, out |-> f[outDir], count |-> 0])
         IN [dirs |-> d1, fs |-> [f EXCEPT ![outDir] = st.out],
             ret |-> st.count > 0, count |-> st.count]

(***************************************************************************)
(* The three range copies.  variant names the function:                    *)
(*   "plain"  copy_images_to_directory       i.png        -> i.png         *)
(*   "rename" copy_and_rename_mask_images    i_000000.png -> i.png         *)
(*   "keep"   copy_mask_images_to_directory  i_000000.png -> i_000000.png  *)
(***************************************************************************)
SourceFile(variant, i) == IF variant = "plain" THEN PlainName(i) ELSE MaskName(i)

DestFile(variant, i) == IF variant = "keep" THEN MaskName(i) ELSE PlainName(i)

\* One pass of the for loop, on the loop state st = [i, out, count].
CopyOne(variant, srcF, st) ==
  IF SourceFile(variant, st.i) \in DOMAIN srcF
  THEN [i |-> st.i,
        out |-> (DestFile(variant, st.i) :> srcF[SourceFile(variant, st.i)])
                  @@ st.out,                              \* shutil.copy2
        count |-> st.count + 1]
  ELSE st                                                 \* warning

RECURSIVE CopyLoopInclusive(_, _, _, _)
CopyLoopInclusive(variant, end, srcF, st) ==
  IF st.i > end THEN st
  ELSE CopyLoopInclusive(variant, end, srcF,
                         [CopyOne(variant, srcF, st) EXCEPT !.i = st.i + 1])

\* for i in range(start_idx, end_idx)
RECURSIVE CopyLoop(_, _, _, _)
CopyLoop(variant, end, srcF, st) ==
  IF st.i >= end THEN st
  ELSE CopyLoop(variant, end, srcF,
                [CopyOne(variant, srcF, st) EXCEPT !.i = st.i + 1])

\* The copy function named by variant, called with (start, end): the file
\* system after it and the count it prints.
CopyRange(variant, d, f, srcDir, dstDir, start, end) ==
  LET st == CopyLoop(variant, end, f[srcDir],
                     [i |-> start, out |-> f[dstDir], count |-> 0])
  IN [dirs |-> Makedirs(d, dstDir),
      fs |-> [f EXCEPT ![dstDir] = st.out],
      count |-> st.count]

(***************************************************************************)
(* postprocess_segmented_images                                            *)
(***************************************************************************)
IsBackgroundInclusive(alpha) == alpha <= AlphaThreshold

\* background_mask = alpha_channel < 10
IsBackground(alpha) == alpha < AlphaThreshold

\* rgba_image[background_mask, 0..2] = 0 on a BGRA array.
Suppress(img) ==
  [img EXCEPT !.px = [p \in DOMAIN img.px |->
                        IF IsBackground(img.px[p][4])
                        THEN <<0, 0, 0, img.px[p][4]>>
                        ELSE img.px[p]]]

\* One pass of the for loop over rgba_files, on the loop state
\* st = [k, out, count].
PostprocessOne(name, st) ==
  LET img == ImreadUnchanged(st.out[name])
  IN IF img.kind = "none" THEN st      \* None has no attribute shape
     ELSE IF img.ch = 0 THEN st        \* shape[2] of a 2-D array: IndexError
     ELSE IF img.ch # 4 THEN st        \* not RGBA: warning, continue
     ELSE [k |-> st.k,
           out |-> (name :> ImwriteBGRA(Suppress(img))) @@ st.out,
           count |-> st.count + 1]

\* for rgba_file in rgba_files
RECURSIVE PostprocessLoop(_, _)
PostprocessLoop(files, st) ==
  IF st.k > Len(files) THEN st
  ELSE PostprocessLoop(files,
         [PostprocessOne(files[st.k], st) EXCEPT !.k = st.k + 1])

\* postprocess_segmented_images(folder) on the file system <<d, f>>.
Postprocess(d, f, folder) ==
  IF folder \notin d THEN [fs |-> f, ret |-> FALSE, count |-> 0]
  ELSE
    LET files == PngFiles(f[folder])
    IN IF files = <<>> THEN [fs |-> f, ret |-> FALSE, count |-> 0]
       ELSE
         LET st == PostprocessLoop(files,
                                   [k |-> 1, out |-> f[folder], count |-> 0])
         IN [fs |-> [f EXCEPT ![folder] = st.out],
             ret |-> st.count > 0, count |-> st.count]

(***************************************************************************)
(* process_object_directory: one action per statement of the orchestrator. *)
(* steps is the set of the steps (1..6) that have run, log the counts the  *)
(* called functions print.                                                 *)
(***************************************************************************)
\* What a called function prints and returns: the count of its final print
\* and its return value ("None" for a function that returns nothing).
Report(fn, dst, count, ret) ==
  [fn |-> fn, dst |-> dst, count |-> count, ret |-> ret]

PyBool(b) == IF b THEN "True" ELSE "False"

Unit == UNCHANGED <<arg, runs, snap, dirs0, fs0>>

\* if not os.path.exists(base_000000_path): return False
CheckBase ==
  /\ pc = "start"
  /\ IF "base" \in dirs
     THEN pc' = "step1" /\ result' = result
     ELSE pc' = "done" /\ result' = "failure"
  /\ UNCHANGED <<dirs, fs, steps, log>>
  /\ Unit

AbortsOnInverted(ret) == ret

AbortsNever(ret) == FALSE

\* if not combine_rgb_mask(...): return False
AbortsOn(ret) == ~ret

Step1 ==
  /\ pc = "step1"
  /\ LET r == CombineRgbMask(dirs, fs, "rgb", "mask", "rgb_mask")
     IN /\ dirs' = r.dirs
        /\ fs' = r.fs
        /\ steps' = steps \cup {1}
        /\ log' = Append(log, Report("combine_rgb_mask", "rgb_mask",
                                     r.count, PyBool(r.ret)))
        /\ IF AbortsOn(r.ret)
           THEN pc' = "done" /\ result' = "failure"
           ELSE pc' = "step2" /\ result' = result
  /\ Unit

\* One distribution step: a call of a copy function, then the next statement.
CopyStep(here, step, variant, srcDir, dstDir, end, next) ==
  /\ pc = here
  /\ LET r == CopyRange(variant, dirs, fs, srcDir, dstDir, 0, end)
     IN /\ dirs' = r.dirs
        /\ fs' = r.fs
        /\ log' = Append(log, Report(variant, dstDir, r.count, "None"))
  /\ steps' = steps \cup {step}
  /\ pc' = next
  /\ result' = result
  /\ Unit

Step2 == CopyStep("step2", 2, "rename", "mask", "seg_masks", SegmentedEnd, "step3")

Step3 == CopyStep("step3", 3, "rename", "mask", "surf_masks", SurfaceEnd, "step4")

Step4 == CopyStep("step4", 4, "plain", "rgb_mask", "surf_images", SurfaceEnd, "step5")

Step5 == CopyStep("step5", 5, "plain", "rgb_mask", "seg_images", SegmentedEnd, "step6")

SuppressTargetSurface == "surf_images"

\* postprocess_segmented_images(segmented_images)
SuppressTarget == "seg_images"

\* The suppressor's return value is ignored; return True.
Step6 ==
  /\ pc = "step6"
  /\ LET r == Postprocess(dirs, fs, SuppressTarget)
     IN /\ fs' = r.fs
        /\ log' = Append(log, Report("postprocess_segmented_images",
                                     SuppressTarget, r.count, PyBool(r.ret)))
  /\ steps' = steps \cup {6}
  /\ pc' = "done"
  /\ result' = "success"
  /\ UNCHANGED dirs
  /\ Unit

Next == CheckBase \/ Step1 \/ Step2 \/ Step3 \/ Step4 \/ Step5 \/ Step6

(***************************************************************************)
(* Input images: the pixel at (r, c) of an h x w image takes the           *)
(* (seed + (r-1)*w + (c-1))-th entry of a palette, cyclically.             *)
(***************************************************************************)
ColorPalette == << <<200, 100, 50>>, <<0, 0, 0>>, <<1, 2, 3>> >>

AlphaPalette == <<0, 9, 10, 255, 128>>

Pick(palette, k) == palette[(k % Len(palette)) + 1]

ColorImg(h, w, seed) ==
  [kind |-> "img", h |-> h, w |-> w, ch |-> 3,
   px |-> [p \in Pos(h, w) |->
             Pick(ColorPalette, seed + (p[1] - 1) * w + (p[2] - 1))]]

MaskImg(h, w, seed) ==
  [kind |-> "img", h |-> h, w |-> w, ch |-> 1,
   px |-> [p \in Pos(h, w) |->
             <<Pick(AlphaPalette, seed + (p[1] - 1) * w + (p[2] - 1))>>]]

RgbaImg(h, w, cseed, aseed) ==
  [kind |-> "img", h |-> h, w |-> w, ch |-> 4,
   px |-> [p \in Pos(h, w) |->
             Pick(ColorPalette, cseed + (p[1] - 1) * w + (p[2] - 1))
             \o <<Pick(AlphaPalette, aseed + (p[1] - 1) * w + (p[2] - 1))>>]]

Dims == (1..MaxDim) \X (1..MaxDim)

(***************************************************************************)
(* The object directories the orchestrator runs on: n frames of 1 x MaxDim *)
(* images, frame i seeded by i, and at most MaxFaults faults.  A file      *)
(* fault is at a probe index: 0 lies in both ranges, SurfaceEnd in the     *)
(* segmented range only; "extra_pair" adds the pair of index SegmentedEnd, *)
(* which lies in neither.                                                  *)
(***************************************************************************)
FrameCounts == {1, SegmentedEnd}

ProbeIdx == {0, SurfaceEnd}

FileFaults ==
  {"rgb_missing", "rgb_bad", "rgb_upper", "rgb_jpg",
   "mask_missing", "mask_bad", "mask_size",
   "stale_rgb_mask", "stale_surf_image"}

FolderFaults == {"no_base", "no_rgb", "no_mask", "extra_pair"}

Faults ==
  [kind : FileFaults, idx : ProbeIdx] \cup [kind : FolderFaults, idx : {0}]

RECURSIVE FaultSetsUpTo(_)
FaultSetsUpTo(k) ==
  IF k = 0 THEN {{}}
  ELSE LET P == FaultSetsUpTo(k - 1)
       IN P \cup {S \cup {f} : S \in P, f \in Faults}

FaultSets == FaultSetsUpTo(MaxFaults)

Has(F, kind, i) == [kind |-> kind, idx |-> i] \in F

\* A composite left by an earlier run: its pixel is in no palette.
StaleImg ==
  [kind |-> "img", h |-> 1, w |-> 1, ch |-> 4,
   px |-> [p \in Pos(1, 1) |-> <<7, 7, 7, 77>>]]

RgbName(F, i) ==
  [stem |-> i, sfx |-> 0,
   ext |-> IF Has(F, "rgb_jpg", i) THEN "jpg"
           ELSE IF Has(F, "rgb_upper", i) THEN "PNG" ELSE "png"]

Extra(F) == IF Has(F, "extra_pair", 0) THEN {SegmentedEnd} ELSE {}

RgbFolder(F, n) ==
  LET idx == {i \in 0..(n - 1) : ~Has(F, "rgb_missing", i)} \cup Extra(F)
  IN [name \in {RgbName(F, i) : i \in idx} |->
        IF Has(F, "rgb_bad", name.stem) THEN Bad
        ELSE ColorImg(1, MaxDim, name.stem)]

MaskFolder(F, n) ==
  LET idx == {i \in 0..(n - 1) : ~Has(F, "mask_missing", i)} \cup Extra(F)
  IN [name \in {MaskName(i) : i \in idx} |->
        IF Has(F, "mask_bad", name.stem) THEN Bad
        ELSE IF Has(F, "mask_size", name.stem)
        THEN MaskImg(MaxDim, 1, name.stem)
        ELSE MaskImg(1, MaxDim, name.stem)]

StaleFolder(F, kind) ==
  [name \in {PlainName(i) : i \in {j \in ProbeIdx : Has(F, kind, j)}} |->
     StaleImg]

ObjectDirs(F) ==
  IF Has(F, "no_base", 0) THEN {}
  ELSE {"base"}
       \cup (IF Has(F, "no_rgb", 0) THEN {} ELSE {"rgb"})
       \cup (IF Has(F, "no_mask", 0) THEN {} ELSE {"mask"})
       \cup (IF \E i \in ProbeIdx : Has(F, "stale_rgb_mask", i)
             THEN {"rgb_mask"} ELSE {})
       \cup (IF \E i \in ProbeIdx : Has(F, "stale_surf_image", i)
             THEN {"surf_images"} ELSE {})

ObjectFiles(F, n) ==
  LET d == ObjectDirs(F)
  IN [folder \in Folders |->
        IF folder \notin d THEN EmptyFolder
        ELSE IF folder = "rgb" THEN RgbFolder(F, n)
        ELSE IF folder = "mask" THEN MaskFolder(F, n)
        ELSE IF folder = "rgb_mask" THEN StaleFolder(F, "stale_rgb_mask")
        ELSE IF folder = "surf_images" THEN StaleFolder(F, "stale_surf_image")
        ELSE EmptyFolder]

NoCall == [variant |-> "none", start |-> 0, end |-> 0]

Init ==
  \E F \in FaultSets, n \in FrameCounts :
    /\ dirs = ObjectDirs(F)
    /\ fs = ObjectFiles(F, n)
    /\ pc = "start"
    /\ result = "running"
    /\ steps = {}
    /\ log = <<>>
    /\ arg = NoCall
    /\ runs = 0
    /\ snap = EmptyFolder
    /\ dirs0 = dirs
    /\ fs0 = fs

Spec == Init /\ [][Next]_vars

(***************************************************************************)
(* combine_rgb_mask called on its own: up to MaxFrames colour images of    *)
(* one size, each with its mask absent, undecodable, or of any size, and   *)
(* an output folder that may hold composites of an earlier run.            *)
(***************************************************************************)
MaskOptions == {<<0, 0>>, <<0, 1>>} \cup Dims   \* absent, undecodable, h x w

FrameIdx(n) == 0..(n - 1)

CombineInputs ==
  UNION {[d : Dims, n : {n},
          mask : [FrameIdx(n) -> MaskOptions],
          stale : SUBSET FrameIdx(n)] : n \in 1..MaxFrames}

CombineFiles(in) ==
  [folder \in Folders |->
     IF folder = "rgb"
     THEN [name \in {PlainName(i) : i \in FrameIdx(in.n)} |->
             ColorImg(in.d[1], in.d[2], name.stem)]
     ELSE IF folder = "mask"
     THEN [name \in {MaskName(i) : i \in {j \in FrameIdx(in.n) :
                                            in.mask[j] # <<0, 0>>}} |->
             IF in.mask[name.stem] = <<0, 1>> THEN Bad
             ELSE MaskImg(in.mask[name.stem][1], in.mask[name.stem][2],
                          name.stem + 1)]
     ELSE IF folder = "rgb_mask"
     THEN [name \in {PlainName(i) : i \in in.stale} |-> StaleImg]
     ELSE EmptyFolder]

InitCombine ==
  \E in \in CombineInputs :
    /\ dirs = {"base", "rgb", "mask"}
                \cup (IF in.stale = {} THEN {} ELSE {"rgb_mask"})
    /\ fs = CombineFiles(in)
    /\ pc = "call"
    /\ result = "running"
    /\ steps = {}
    /\ log = <<>>
    /\ arg = NoCall
    /\ runs = 0
    /\ snap = EmptyFolder
    /\ dirs0 = dirs
    /\ fs0 = fs

Returned(ret) == IF ret THEN "success" ELSE "failure"

CombineCall ==
  /\ pc = "call"
  /\ LET r == CombineRgbMask(dirs, fs, "rgb", "mask", "rgb_mask")
     IN /\ dirs' = r.dirs
        /\ fs' = r.fs
        /\ log' = Append(log, Report("combine_rgb_mask", "rgb_mask",
                                     r.count, PyBool(r.ret)))
        /\ result' = Returned(r.ret)
  /\ pc' = "ret"
  /\ UNCHANGED steps
  /\ Unit

SpecCombine == InitCombine /\ [][CombineCall]_vars

(***************************************************************************)
(* A copy function called on its own with a range (start, end) drawn from  *)
(* -1..MaxIdx+1: the source folder holds the files of any set of indices   *)
(* under the name the function reads and all of them under the other name, *)
(* the destination may hold a file of an earlier run.                      *)
(***************************************************************************)
CopyIdx == (-1)..MaxIdx

CopySrcDir(variant) == IF variant = "plain" THEN "rgb_mask" ELSE "mask"

CopyDstDir(variant) == IF variant = "plain" THEN "seg_images" ELSE "seg_masks"

OtherName(variant, i) == IF variant = "plain" THEN MaskName(i) ELSE PlainName(i)

CopyInputs ==
  [variant : {"plain", "rename", "keep"},
   start : (-1)..MaxIdx, end : (-1)..(MaxIdx + 1),
   present : SUBSET CopyIdx, stale : {{}, {MaxIdx}, {0}}]

CopyFiles(in) ==
  [folder \in Folders |->
     IF folder = CopySrcDir(in.variant)
     THEN [name \in {SourceFile(in.variant, i) : i \in in.present}
                    \cup {OtherName(in.variant, i) : i \in CopyIdx} |->
             IF name.sfx = 1 THEN MaskImg(1, 1, name.stem + 1)
             ELSE RgbaImg(1, 1, name.stem + 1, name.stem + 1)]
     ELSE IF folder = CopyDstDir(in.variant)
     THEN [name \in {DestFile(in.variant, i) : i \in in.stale} |-> StaleImg]
     ELSE EmptyFolder]

InitCopy ==
  \E in \in CopyInputs :
    /\ dirs = {"base", CopySrcDir(in.variant)}
                \cup (IF in.stale = {} THEN {} ELSE {CopyDstDir(in.variant)})
    /\ fs = CopyFiles(in)
    /\ pc = "call"
    /\ result = "running"
    /\ steps = {}
    /\ log = <<>>
    /\ arg = [variant |-> in.variant, start |-> in.start, end |-> in.end]
    /\ runs = 0
    /\ snap = EmptyFolder
    /\ dirs0 = dirs
    /\ fs0 = fs

CopyCall(variant) ==
  /\ pc = "call"
  /\ arg.variant = variant
  /\ LET r == CopyRange(variant, dirs, fs, CopySrcDir(variant),
                        CopyDstDir(variant), arg.start, arg.end)
     IN /\ dirs' = r.dirs
        /\ fs' = r.fs
        /\ log' = Append(log, Report(variant, CopyDstDir(variant), r.count,
                                     "None"))
  /\ pc' = "ret"
  /\ UNCHANGED <<result, steps>>
  /\ Unit

copy_images_to_directory == CopyCall("plain")

copy_and_rename_mask_images == CopyCall("rename")

copy_mask_images_to_directory == CopyCall("keep")

NextCopy ==
  \/ copy_images_to_directory
  \/ copy_and_rename_mask_images
  \/ copy_mask_images_to_directory

SpecCopy == InitCopy /\ [][NextCopy]_vars

(***************************************************************************)
(* postprocess_segmented_images called twice in succession on a folder of  *)
(* up to MaxFiles files: RGBA images of one size with any alpha seed, a    *)
(* 3-channel image, a gray image, an undecodable file, or a file that is   *)
(* no PNG.  snap is the folder as it was before the latest call.           *)
(***************************************************************************)
FileOptions ==
  [kind : {"rgba"}, a : 0..(Len(AlphaPalette) - 1)]
    \cup [kind : {"rgb", "gray", "bad", "jpg"}, a : {0}]

SuppressInputs ==
  UNION {[d : Dims, n : {n}, file : [FrameIdx(n) -> FileOptions],
          exists : BOOLEAN] : n \in 0..MaxFiles}

SuppressFiles(in) ==
  [folder \in Folders |->
     IF folder = "seg_images" /\ in.exists
     THEN [name \in {[stem |-> i, sfx |-> 0,
                      ext |-> IF in.file[i].kind = "jpg" THEN "jpg"
                              ELSE "png"] :
                       i \in FrameIdx(in.n)} |->
             LET o == in.file[name.stem]
             IN IF o.kind = "rgb"
                THEN ColorImg(in.d[1], in.d[2], name.stem)
                ELSE IF o.kind = "gray"
                THEN MaskImg(in.d[1], in.d[2], name.stem)
                ELSE IF o.kind = "bad" THEN Bad
                ELSE RgbaImg(in.d[1], in.d[2], name.stem, o.a)]
     ELSE EmptyFolder]

InitSuppress ==
  \E in \in SuppressInputs :
    /\ dirs = IF in.exists THEN {"seg_images"} ELSE {}
    /\ fs = SuppressFiles(in)
    /\ pc = "call"
    /\ result = "running"
    /\ steps = {}
    /\ log = <<>>
    /\ arg = NoCall
    /\ runs = 0
    /\ snap = EmptyFolder
    /\ dirs0 = dirs
    /\ fs0 = fs

PostprocessCall ==
  /\ pc = "call"
  /\ runs < 2
  /\ LET r == Postprocess(dirs, fs, "seg_images")
     IN /\ fs' = r.fs
        /\ log' = Append(log, Report("postprocess_segmented_images",
                                     "seg_images", r.count, PyBool(r.ret)))
        /\ result' = Returned(r.ret)
  /\ snap' = fs["seg_images"]
  /\ runs' = runs + 1
  /\ UNCHANGED <<dirs, pc, steps, arg, dirs0, fs0>>

SpecSuppress == InitSuppress /\ [][PostprocessCall]_vars

(***************************************************************************)
(* Claims about postprocess_segmented_images (SpecSuppress).               *)
(***************************************************************************)
Color(px) == <<px[1], px[2], px[3]>>

\* The files a call rewrites: the PNG files of the folder that decode to
\* four channels.
Rewritten(folder) ==
  {name \in DOMAIN folder :
     IsPng(name) /\ folder[name].kind = "img" /\ folder[name].ch = 4}

\* C6: in every 4-channel image a call has rewritten, at every pixel, the
\* alpha is the one before the call, the colour is 0 where that alpha is
\* below 10 (9 is background) and unchanged where it is 10 or more.
C6_SuppressPixels ==
  runs >= 1 =>
    \A name \in Rewritten(snap) :
      LET before == snap[name]
          after == fs["seg_images"][name]
      IN /\ after.kind = "img" /\ after.ch = 4
         /\ after.h = before.h /\ after.w = before.w
         /\ \A p \in Pos(before.h, before.w) :
              /\ after.px[p][4] = before.px[p][4]
              /\ before.px[p][4] <= 9 => Color(after.px[p]) = <<0, 0, 0>>
              /\ before.px[p][4] >= 10 =>
                   Color(after.px[p]) = Color(before.px[p])

\* A first call has rewritten a folder holding a coloured pixel of alpha 9
\* and a coloured pixel of alpha 10.
C6_Witness ==
  /\ runs = 1
  /\ \E name \in Rewritten(snap) : \E p \in DOMAIN snap[name].px :
       snap[name].px[p][4] = 9 /\ Color(snap[name].px[p]) # <<0, 0, 0>>
  /\ \E name \in Rewritten(snap) : \E p \in DOMAIN snap[name].px :
       snap[name].px[p][4] = 10 /\ Color(snap[name].px[p]) # <<0, 0, 0>>

\* C7: a second call in succession leaves every file of the folder as the
\* first call left it.
C7_Idempotent == runs = 2 => fs["seg_images"] = snap

\* Two calls have run, the first changed a file, and a pixel it kept has
\* red different from blue.
C7_Witness ==
  /\ runs = 2
  /\ snap # fs0["seg_images"]
  /\ \E name \in Rewritten(snap) : \E p \in DOMAIN snap[name].px :
       snap[name].px[p][1] # snap[name].px[p][3]

(***************************************************************************)
(* Claims about the three copy functions (SpecCopy).                       *)
(***************************************************************************)
\* The names the three functions read and write for index i, as the claim
\* states them.
C5_Src(variant, i) ==
  [stem |-> i, sfx |-> IF variant = "plain" THEN 0 ELSE 1, ext |-> "png"]

C5_Dst(variant, i) ==
  [stem |-> i, sfx |-> IF variant = "keep" THEN 1 ELSE 0, ext |-> "png"]

\* The indices of the range whose source file exists.
C5_Copied ==
  {i \in arg.start..(arg.end - 1) :
     C5_Src(arg.variant, i) \in DOMAIN fs0[CopySrcDir(arg.variant)]}

\* C5: after a copy function returns, the destination holds what it held
\* before plus, for exactly the indices of [start, end) whose source file
\* exists, a copy of that file; nothing else is written, a missing source
\* stops nothing, and the count reported is the number of files written.
C5_CopyExact ==
  pc = "ret" =>
    LET v == arg.variant
        src == fs0[CopySrcDir(v)]
        dst0 == fs0[CopyDstDir(v)]
        dst == fs[CopyDstDir(v)]
        written == {C5_Dst(v, i) : i \in C5_Copied}
    IN /\ DOMAIN dst = DOMAIN dst0 \cup written
       /\ \A i \in C5_Copied : dst[C5_Dst(v, i)] = src[C5_Src(v, i)]
       /\ \A n \in DOMAIN dst0 \ written : dst[n] = dst0[n]
       /\ \A f \in Folders \ {CopyDstDir(v)} : fs[f] = fs0[f]
       /\ log[Len(log)].count = Cardinality(C5_Copied)

\* A call has returned whose range holds a missing source at i and a copied
\* one at i + 1, with a source file present outside the range and an older
\* file in the destination.
C5_Witness ==
  /\ pc = "ret"
  /\ \E i \in arg.start..(arg.end - 2) :
       /\ C5_Src(arg.variant, i) \notin DOMAIN fs0[CopySrcDir(arg.variant)]
       /\ i + 1 \in C5_Copied
  /\ \E j \in CopyIdx :
       /\ j \notin arg.start..(arg.end - 1)
       /\ C5_Src(arg.variant, j) \in DOMAIN fs0[CopySrcDir(arg.variant)]
  /\ fs0[CopyDstDir(arg.variant)] # EmptyFolder

(***************************************************************************)
(* Claims about combine_rgb_mask (SpecCombine).                            *)
(***************************************************************************)
\* The colour files the compositor reads, the mask file and the composite
\* of one, as the claims state them.
Frames(rgbF) == {name \in DOMAIN rgbF : name.ext \in {"png", "PNG"}}

MaskOf(name) == [stem |-> name.stem, sfx |-> name.sfx + 1, ext |-> "png"]

CompositeOf(name) == [stem |-> name.stem, sfx |-> name.sfx, ext |-> "png"]

Decodable(folder, name) == name \in DOMAIN folder /\ folder[name].kind = "img"

\* The frames whose colour file and mask file both decode.
Pairs(f) ==
  {name \in Frames(f["rgb"]) :
     Decodable(f["rgb"], name) /\ Decodable(f["mask"], MaskOf(name))}

SameSize(a, b) == a.h = b.h /\ a.w = b.w

\* The composite of the frame has the colour image's size and channels.
HasColorOf(out, color) ==
  /\ out.kind = "img" /\ out.ch = 4 /\ SameSize(out, color)
  /\ \A p \in Pos(color.h, color.w) : Color(out.px[p]) = color.px[p]

\* C3: for every colour/mask pair of equal size the composite has the
\* colour image's size, the colour image's channels in channels 0-2 and
\* the mask's value in channel 3, at every pixel.
C3_CompositeExact ==
  pc = "ret" =>
    \A name \in Pairs(fs0) :
      LET color == fs0["rgb"][name]
          mask == fs0["mask"][MaskOf(name)]
      IN SameSize(color, mask) =>
           /\ CompositeOf(name) \in DOMAIN fs["rgb_mask"]
           /\ HasColorOf(fs["rgb_mask"][CompositeOf(name)], color)
           /\ \A p \in Pos(color.h, color.w) :
                fs["rgb_mask"][CompositeOf(name)].px[p][4] = mask.px[p][1]

\* A call has returned on a pair of equal size with a pixel whose red and
\* blue differ.
C3_Witness ==
  /\ pc = "ret"
  /\ \E name \in Pairs(fs0) :
       /\ SameSize(fs0["rgb"][name], fs0["mask"][MaskOf(name)])
       /\ \E p \in DOMAIN fs0["rgb"][name].px :
            fs0["rgb"][name].px[p][1] # fs0["rgb"][name].px[p][3]

\* C4: a pair whose mask differs in size from the colour image still gets
\* a composite, of the colour image's size and channels, and counts as
\* processed: the count reported is the number of decodable pairs.
C4_MismatchStillComposited ==
  pc = "ret" =>
    /\ \A name \in Pairs(fs0) :
         LET color == fs0["rgb"][name]
             mask == fs0["mask"][MaskOf(name)]
         IN ~SameSize(color, mask) =>
              /\ CompositeOf(name) \in DOMAIN fs["rgb_mask"]
              /\ HasColorOf(fs["rgb_mask"][CompositeOf(name)], color)
    /\ log[Len(log)].count = Cardinality(Pairs(fs0))

\* A call has returned on a colour image that is not square whose mask has
\* another size.
C4_Witness ==
  /\ pc = "ret"
  /\ \E name \in Pairs(fs0) :
       /\ ~SameSize(fs0["rgb"][name], fs0["mask"][MaskOf(name)])
       /\ fs0["rgb"][name].h # fs0["rgb"][name].w

\* The frames whose mask file is absent.
Maskless(f) ==
  {name \in Frames(f["rgb"]) : MaskOf(name) \notin DOMAIN f["mask"]}

\* The file system f with a mask of the colour image's size (or a 1 x 1
\* one, for an undecodable colour file) added for every maskless frame.
WithAllMasks(f) ==
  [f EXCEPT !["mask"] =
     [n \in DOMAIN f["mask"] \cup {MaskOf(name) : name \in Maskless(f)} |->
        IF n \in DOMAIN f["mask"] THEN f["mask"][n]
        ELSE LET c == f["rgb"][CHOOSE name \in Maskless(f) : MaskOf(name) = n]
             IN IF c.kind = "img" THEN MaskImg(c.h, c.w, 0)
                ELSE MaskImg(1, 1, 0)]]

\* The output folder after the same call with no mask missing.
OutputWithAllMasks ==
  CombineRgbMask(dirs0, WithAllMasks(fs0), "rgb", "mask", "rgb_mask")
    .fs["rgb_mask"]

\* Every frame that has its mask has the composite, or none, that it has
\* when no mask is missing.
C2_OthersUnaffected ==
  \A name \in Frames(fs0["rgb"]) \ Maskless(fs0) :
    /\ CompositeOf(name) \in DOMAIN fs["rgb_mask"]
         <=> CompositeOf(name) \in DOMAIN OutputWithAllMasks
    /\ CompositeOf(name) \in DOMAIN fs["rgb_mask"] =>
         fs["rgb_mask"][CompositeOf(name)]
           = OutputWithAllMasks[CompositeOf(name)]

\* C2 as stated: after the call no maskless frame has a file in the output
\* folder, and the other frames are unaffected.
C2_Original ==
  pc = "ret" =>
    /\ \A name \in Maskless(fs0) :
         CompositeOf(name) \notin DOMAIN fs["rgb_mask"]
    /\ C2_OthersUnaffected

\* C2 as amended: the call neither creates nor changes the output file of a
\* maskless frame (it is there after the call only if it was there before,
\* unchanged), and the other frames are unaffected.
C2_MasklessUntouched ==
  pc = "ret" =>
    /\ \A name \in Maskless(fs0) :
         /\ CompositeOf(name) \in DOMAIN fs["rgb_mask"]
              <=> CompositeOf(name) \in DOMAIN fs0["rgb_mask"]
         /\ CompositeOf(name) \in DOMAIN fs["rgb_mask"] =>
              fs["rgb_mask"][CompositeOf(name)]
                = fs0["rgb_mask"][CompositeOf(name)]
    /\ C2_OthersUnaffected

\* A call has returned on a maskless frame whose composite of an earlier
\* run is in the output folder, followed by a frame it has composited.
C2_Witness ==
  /\ pc = "ret"
  /\ \E name \in Maskless(fs0), other \in Pairs(fs0) :
       /\ CompositeOf(name) \in DOMAIN fs0["rgb_mask"]
       /\ name.stem < other.stem
       /\ fs["rgb_mask"][CompositeOf(other)] # StaleImg

(***************************************************************************)
(* Claims about process_object_directory (Spec).                           *)
(***************************************************************************)
InputFolderMissing ==
  "base" \notin dirs0 \/ "rgb" \notin dirs0 \/ "mask" \notin dirs0

NoDistribution ==
  /\ steps \cap (2..6) = {}
  /\ \A f \in VggtFolders : fs[f] = fs0[f]

\* C1 as stated: the run fails, running none of steps 2-6, exactly when an
\* input folder is missing or the colour folder holds no eligible image;
\* otherwise steps 1-6 all run and it succeeds.
C1_Original ==
  pc = "done" =>
    /\ result = "failure"
         <=> (InputFolderMissing \/ Frames(fs0["rgb"]) = {})
    /\ result = "failure" => NoDistribution
    /\ result = "success" => steps = 1..6

\* C1 as amended: the run fails, running none of steps 2-6, exactly when an
\* input folder is missing, the colour folder holds no eligible image, or
\* no composite is produced (no eligible colour image decodes and has a
\* mask file that decodes); otherwise steps 1-6 all run and it succeeds.
C1_AbortExactly ==
  pc = "done" =>
    /\ result = "failure"
         <=> (InputFolderMissing \/ Frames(fs0["rgb"]) = {}
              \/ Pairs(fs0) = {})
    /\ result = "failure" => NoDistribution
    /\ result = "success" => steps = 1..6

\* A run has failed with its input folders present and an eligible colour
\* image in the colour folder.
C1_Witness ==
  /\ pc = "done"
  /\ result = "failure"
  /\ ~InputFolderMissing
  /\ Frames(fs0["rgb"]) # {}

\* The object directory of the scenario: colour images 0..29, their masks,
\* all decodable and each mask of its image's size, and nothing else.
Scenario30 ==
  /\ dirs0 = {"base", "rgb", "mask"}
  /\ DOMAIN fs0["rgb"] = {[stem |-> i, sfx |-> 0, ext |-> "png"] : i \in 0..29}
  /\ DOMAIN fs0["mask"] = {[stem |-> i, sfx |-> 1, ext |-> "png"] : i \in 0..29}
  /\ Pairs(fs0) = DOMAIN fs0["rgb"]
  /\ \A name \in DOMAIN fs0["rgb"] :
       SameSize(fs0["rgb"][name], fs0["mask"][MaskOf(name)])

\* C8: after a run on the scenario, segmented/images holds exactly the 30
\* files 0..29, each with colour 0 wherever the mask of that index in
\* segmented/masks is below 10, and surface/images holds exactly the 20
\* files 0..19, each with the colour of the composite of that index.
C8_EndToEnd ==
  (pc = "done" /\ Scenario30) =>
    /\ DOMAIN fs["seg_images"]
         = {[stem |-> i, sfx |-> 0, ext |-> "png"] : i \in 0..29}
    /\ DOMAIN fs["seg_masks"] = DOMAIN fs["seg_images"]
    /\ \A name \in DOMAIN fs["seg_images"] :
         LET img == fs["seg_images"][name]
             mask == fs["seg_masks"][name]
         IN /\ img.kind = "img" /\ img.ch = 4 /\ SameSize(img, mask)
            /\ \A p \in Pos(img.h, img.w) :
                 mask.px[p][1] < 10 => Color(img.px[p]) = <<0, 0, 0>>
    /\ DOMAIN fs["surf_images"]
         = {[stem |-> i, sfx |-> 0, ext |-> "png"] : i \in 0..19}
    /\ \A name \in DOMAIN fs["surf_images"] :
         LET img == fs["surf_images"][name]
             composite == fs["rgb_mask"][name]
         IN /\ img.kind = "img" /\ img.ch = 4 /\ SameSize(img, composite)
            /\ \A p \in Pos(img.h, img.w) :
                 /\ Color(img.px[p]) = Color(composite.px[p])
                 /\ Color(img.px[p]) = fs0["rgb"][name].px[p]

\* A run on the scenario has ended, and a surface image of it has a
\* coloured pixel whose mask value is below 10.
C8_Witness ==
  /\ pc = "done"
  /\ Scenario30
  /\ \E name \in DOMAIN fs["surf_images"] :
       \E p \in DOMAIN fs["surf_images"][name].px :
         /\ fs["surf_images"][name].px[p][4] < 10
         /\ Color(fs0["rgb"][name].px[p]) # <<0, 0, 0>>

Changed(f) == fs'[f] # fs[f] \/ (f \in dirs') # (f \in dirs)

\* C9: a step changes a folder of the vggt tree, or is one of steps 2-6,
\* only after the compositor has run and returned True; the suppressor
\* runs only after step 5 (the copy into segmented/images) and changes no
\* folder but segmented/images.
C9_Ordered ==
  [][/\ ((\E f \in VggtFolders : Changed(f)) \/ (steps' \ steps) \cap (2..6) # {})
          => /\ 1 \in steps
             /\ log[1].fn = "combine_rgb_mask" /\ log[1].ret = "True"
     /\ 6 \in steps' \ steps
          => /\ {1, 2, 3, 4, 5} \subseteq steps
             /\ \A f \in Folders \ {"seg_images"} : ~Changed(f)
             /\ \A i \in 0..29 :
                  PlainName(i) \in DOMAIN fs["rgb_mask"]
                    => /\ PlainName(i) \in DOMAIN fs["seg_images"]
                       /\ fs["seg_images"][PlainName(i)]
                            = fs["rgb_mask"][PlainName(i)]
     /\ \A f \in {"rgb", "mask"} : ~Changed(f)]_vars

\* A run has ended in which the suppressor changed a file of
\* segmented/images.
C9_Witness ==
  /\ pc = "done"
  /\ result = "success"
  /\ \E name \in DOMAIN fs["seg_images"] :
       /\ name \in DOMAIN fs["rgb_mask"]
       /\ fs["seg_images"][name] # fs["rgb_mask"][name]

\* The composite folder and the vggt tree hold no file before the run.
FreshOutputs == \A f \in VggtFolders \cup {"rgb_mask"} : fs0[f] = EmptyFolder

\* C10: after a successful run that began with no output file, every file
\* of surface/images has its namesake in segmented/images and in
\* surface/masks, and every file of segmented/images has its namesake in
\* segmented/masks.
C10_ImagesHaveMasks ==
  (pc = "done" /\ result = "success" /\ FreshOutputs) =>
    /\ DOMAIN fs["surf_images"] \subseteq DOMAIN fs["seg_images"]
    /\ DOMAIN fs["surf_images"] \subseteq DOMAIN fs["surf_masks"]
    /\ DOMAIN fs["seg_images"] \subseteq DOMAIN fs["seg_masks"]

\* A successful run that began with no output file has ended, with a
\* maskless frame in the surface range, a mask without a composite, and a
\* surface image.
C10_Witness ==
  /\ pc = "done"
  /\ result = "success"
  /\ FreshOutputs
  /\ \E name \in Maskless(fs0) : name.stem < 20
  /\ DOMAIN fs["seg_masks"] \ DOMAIN fs["seg_images"] # {}
  /\ fs["surf_images"] # EmptyFolder

====
